---- MODULE Spec2Model ----
(***************************************************************************)
(* Model of the simcore value types: Duration, UtcCalendar, Time (time.hpp)*)
(* and Vec3 (vec3.hpp).                                                    *)
(*                                                                         *)
(* Number representation.  TLC integers are 32 bits wide, so the machine   *)
(* types of the source are modelled at reduced width:                      *)
(*   std::int64_t  -> signed integers of NsBits bits,                      *)
(*   int           -> signed integers of IntBits bits,                     *)
(*   double        -> binary floating point with a DblBits-bit significand,*)
(*   1e9 (ns/s)    -> NsPerSec ticks per second.                           *)
(* As in the source, the significand is narrower than the 64-bit integer,  *)
(* so static_cast<double>(INT64_MAX) rounds up to 2^(NsBits-1).            *)
(* A double holding seconds or nanoseconds is stored as the integer 2*x    *)
(* ("halves"), which gives the half-way cases of llround.  A double holding*)
(* a Julian Date is stored as [hd, fr]: hd whole half-days plus fr halves  *)
(* of a second, 0 <= fr < 86400.                                           *)
(***************************************************************************)
EXTENDS Integers, Sequences, FiniteSets, TLC

VARIABLES
    build,    \* what this build does where the language leaves it open
    a,        \* Time operand (nanoseconds since J2000)
    b,        \* second Time operand of a - b and of the comparisons
    arg,      \* double argument of the last operation (halves of a second)
    t,        \* Time produced by the last operation
    dur,      \* Duration produced by Time - Time
    cmp,      \* results of the six comparison operators
    pc,       \* which operation has been applied
    outcome,  \* how the last operation ended
    ub,       \* a signed integer operation left its type's range
    cal,      \* UtcCalendar input
    conv,     \* locals of utc_to_jd for the last conversion
    va, vb,   \* Vec3 operands
    vres      \* result of the last Vec3 operation

vars == <<build, a, b, arg, t, dur, cmp, pc, outcome, ub, cal, conv, va, vb, vres>>

----------------------------------------------------------------------------
(* Bounds of the model *)

\* width of the modelled std::int64_t
NsBits == 6
\* significand width of the modelled double
DblBits == 3
\* ticks per second (1e9 in the source)
NsPerSec == 3
\* width of the modelled int
IntBits == 16
\* Vec3 components range over -VecMax..VecMax
VecMax == 2

----------------------------------------------------------------------------
(* Machine arithmetic *)

Pow2(n) == 2^n

Abs(x) == IF x < 0 THEN -x ELSE x

INT64_MAX == Pow2(NsBits - 1) - 1
INT64_MIN == -Pow2(NsBits - 1)
Int64 == INT64_MIN..INT64_MAX

INT_MAX == Pow2(IntBits - 1) - 1
INT_MIN == -Pow2(IntBits - 1)

\* Builds differ in what a signed overflow does (wrap, or trap as under
\* -ftrapv / a sanitizer) and in what llround returns for a value outside
\* long long (the minimum on x86-64, the saturated bound on AArch64).
Builds == [trapv : BOOLEAN, sat : BOOLEAN]

\* two's-complement wrap of x into w bits
Wrap(x, w) == ((x + Pow2(w - 1)) % Pow2(w)) - Pow2(w - 1)

\* number of bits of n >= 0
RECURSIVE BitLen(_)
BitLen(n) == IF n = 0 THEN 0 ELSE 1 + BitLen(n \div 2)

\* n rounded to p significant bits, ties to even (IEEE round-to-nearest)
FlRound(n, p) ==
    LET m == Abs(n)
        e == BitLen(m)
    IN  IF e <= p THEN n
        ELSE LET ulp == Pow2(e - p)
                 q == m \div ulp
                 r == m % ulp
                 up == (2 * r > ulp) \/ (2 * r = ulp /\ q % 2 = 1)
                 v == IF up THEN (q + 1) * ulp ELSE q * ulp
             IN  IF n < 0 THEN -v ELSE v

\* static_cast<double>(n) of a 64-bit integer, in halves
ToDouble(n) == 2 * FlRound(n, DblBits)

\* std::llround of x (in halves): nearest integer, ties away from zero
llround(x) == IF x >= 0 THEN (x + 1) \div 2 ELSE -((1 - x) \div 2)

\* the value llround hands back: unspecified when the rounded value is not
\* a long long
LLRoundResult(x, bld) ==
    LET r == llround(x)
    IN  IF r \in Int64 THEN r
        ELSE IF bld.sat THEN (IF r > 0 THEN INT64_MAX ELSE INT64_MIN)
        ELSE INT64_MIN

\* result of a signed 64-bit addition or subtraction whose exact value is v
Int64Result(v, bld) ==
    IF v \in Int64 THEN [kind |-> "ok", val |-> v, ub |-> FALSE]
    ELSE IF bld.trapv THEN [kind |-> "Trap", val |-> 0, ub |-> TRUE]
    ELSE [kind |-> "ok", val |-> Wrap(v, NsBits), ub |-> TRUE]

----------------------------------------------------------------------------
(* Duration *)

Duration_from_seconds(s) == s
Duration_from_minutes(m) == 60 * m
Duration_from_hours(h) == 3600 * h
Duration_from_days(d) == 86400 * d

----------------------------------------------------------------------------
(* Time *)

\* Time::to_ns
to_ns(seconds, bld) ==
    LET ns == FlRound(seconds * NsPerSec, DblBits)
    IN  IF ns > ToDouble(INT64_MAX) \/ ns < ToDouble(INT64_MIN)
        THEN [kind |-> "Overflow", ns |-> 0]
        ELSE [kind |-> "ok", ns |-> LLRoundResult(ns, bld)]

\* Time::from_ns_since_j2000
from_ns_since_j2000(ns) == ns

\* Time::from_seconds_since_j2000
from_seconds_since_j2000(sec, bld) ==
    LET r == to_ns(sec, bld)
    IN  IF r.kind = "Overflow"
        THEN [kind |-> "Overflow", ns |-> 0, ub |-> FALSE]
        ELSE [kind |-> "Time", ns |-> r.ns, ub |-> FALSE]

\* operator+ with the delta truncated toward zero instead of rounded
TimePlusDuration_truncating(tm, d, bld) ==
    LET r == to_ns(d, bld)
        ns == FlRound(d * NsPerSec, DblBits)
        delta == IF ns >= 0 THEN ns \div 2 ELSE -((-ns) \div 2)
        s == Int64Result(tm + delta, bld)
    IN  IF r.kind = "Overflow"
        THEN [kind |-> "Overflow", ns |-> 0, ub |-> FALSE]
        ELSE IF s.kind = "Trap"
        THEN [kind |-> "Trap", ns |-> 0, ub |-> TRUE]
        ELSE [kind |-> "Time", ns |-> s.val, ub |-> s.ub]

\* operator+(Time, Duration)
TimePlusDuration(tm, d, bld) ==
    LET r == to_ns(d, bld)
        s == Int64Result(tm + r.ns, bld)
    IN  IF r.kind = "Overflow"
        THEN [kind |-> "Overflow", ns |-> 0, ub |-> FALSE]
        ELSE IF s.kind = "Trap"
        THEN [kind |-> "Trap", ns |-> 0, ub |-> TRUE]
        ELSE [kind |-> "Time", ns |-> s.val, ub |-> s.ub]

\* operator-(Time, Duration)
TimeMinusDuration(tm, d, bld) ==
    LET r == to_ns(d, bld)
        s == Int64Result(tm - r.ns, bld)
    IN  IF r.kind = "Overflow"
        THEN [kind |-> "Overflow", ns |-> 0, ub |-> FALSE]
        ELSE IF s.kind = "Trap"
        THEN [kind |-> "Trap", ns |-> 0, ub |-> TRUE]
        ELSE [kind |-> "Time", ns |-> s.val, ub |-> s.ub]

\* operator-(Time, Time): the 64-bit difference, converted to double and
\* scaled by 1e-9; the Duration is kept as the fraction num / den seconds
TimeMinusTime(x, y, bld) ==
    LET s == Int64Result(x - y, bld)
    IN  IF s.kind = "Trap"
        THEN [kind |-> "Trap", nsdiff |-> 0, num |-> 0, den |-> NsPerSec, ub |-> TRUE]
        ELSE [kind |-> "Duration", nsdiff |-> s.val,
              num |-> FlRound(s.val, DblBits), den |-> NsPerSec, ub |-> s.ub]

\* comparison operators
TimeEq(x, y) == x = y
TimeNe(x, y) == ~TimeEq(x, y)
TimeLt(x, y) == x < y
TimeLe(x, y) == x <= y
TimeGt(x, y) == TimeLt(y, x)
\* operator>= written as a strict comparison
TimeGe_strict(x, y) == TimeLt(y, x)
TimeGe(x, y) == ~TimeLt(x, y)

Compare(x, y) ==
    [eq |-> TimeEq(x, y), ne |-> TimeNe(x, y), lt |-> TimeLt(x, y),
     le |-> TimeLe(x, y), gt |-> TimeGt(x, y), ge |-> TimeGe(x, y)]

NoCmp == [eq |-> FALSE, ne |-> FALSE, lt |-> FALSE, le |-> FALSE, gt |-> FALSE, ge |-> FALSE]
NoDur == [nsdiff |-> 0, num |-> 0, den |-> NsPerSec]

----------------------------------------------------------------------------
(* UtcCalendar and the Gregorian calendar -> Julian Date conversion *)

\* Julian Date of the J2000 epoch
JD_J2000 == 2451545

\* result of a signed int operation whose exact value is v
IntWrap(v) == Wrap(v, IntBits)
IntOverflows(v) == v < INT_MIN \/ v > INT_MAX

\* C++ integer division: the quotient is truncated toward zero
IntDiv(x, y) == IF x >= 0 THEN x \div y ELSE -((-x) \div y)

\* is_gregorian_valid with a days-in-month check
is_gregorian_valid_days_in_month(y, m, d) ==
    IF m < 1 \/ m > 12 THEN FALSE
    ELSE IF d < 1 \/ d > (IF m = 2 THEN 29 ELSE IF m \in {4, 6, 9, 11} THEN 30 ELSE 31)
    THEN FALSE
    ELSE TRUE

\* Time::is_gregorian_valid
is_gregorian_valid(y, m, d) ==
    IF m < 1 \/ m > 12 THEN FALSE
    ELSE IF d < 1 \/ d > 31 THEN FALSE
    ELSE TRUE

NoConv == [kind |-> "none", Y |-> 0, M |-> 0, A |-> 0, B |-> 0,
           jd |-> [hd |-> 0, fr |-> 0], ub |-> FALSE]

\* Time::utc_to_jd.  utc.second is in halves of a second.  365.25 is the
\* exact double 1461/4; 30.6001 * (M + 1) stays more than 1e-4 away from an
\* integer for M + 1 in 4..15, so its floor is that of 306001 * (M + 1) / 10000.
utc_to_jd(utc, bld) ==
    IF ~is_gregorian_valid(utc.year, utc.month, utc.day)
    THEN [NoConv EXCEPT !.kind = "InvalidArgument"]
    ELSE IF utc.hour < 0 \/ utc.hour > 23 \/ utc.minute < 0 \/ utc.minute > 59
            \/ utc.second < 0 \/ utc.second >= 2 * 60
    THEN [NoConv EXCEPT !.kind = "InvalidArgument"]
    ELSE LET shift == utc.month <= 2
             Yexact == IF shift THEN utc.year - 1 ELSE utc.year
             Y == IntWrap(Yexact)
             M == IF shift THEN utc.month + 12 ELSE utc.month
             D == utc.day
             A == IntDiv(Y, 100)
             B == 2 - A + IntDiv(A, 4)
             \* day_fraction, in halves of a second of the day
             day_fraction == 2 * (3600 * utc.hour + 60 * utc.minute) + utc.second
             Y4716 == IntWrap(Y + 4716)
             whole == ((1461 * Y4716) \div 4) + ((306001 * (M + 1)) \div 10000) + D + B
             overflowed == IntOverflows(Yexact) \/ IntOverflows(Y + 4716)
         IN  IF overflowed /\ bld.trapv
             THEN [NoConv EXCEPT !.kind = "Trap", !.ub = TRUE]
             ELSE [kind |-> "jd", Y |-> Y, M |-> M, A |-> A, B |-> B,
                   jd |-> [hd |-> 2 * whole - 3049 + (day_fraction \div 86400),
                           fr |-> day_fraction % 86400],
                   ub |-> overflowed]

\* Doubles of seconds at or beyond DblHuge (in halves) are collapsed to
\* +-DblHuge: every one of them fails the range check of to_ns.
DblHuge == Pow2(NsBits + 2)
DayCap == (DblHuge \div 86400) + 2

\* from_julian_date without the subtraction of the epoch
from_julian_date_no_epoch(jd, bld) ==
    LET sec == IF jd.hd >= DayCap THEN DblHuge
               ELSE IF jd.hd <= -DayCap THEN -DblHuge
               ELSE 86400 * jd.hd + jd.fr
    IN  from_seconds_since_j2000(sec, bld)

\* Time::from_julian_date
from_julian_date(jd, bld) ==
    LET days == [hd |-> jd.hd - 2 * JD_J2000, fr |-> jd.fr]
        sec == IF days.hd >= DayCap THEN DblHuge
               ELSE IF days.hd <= -DayCap THEN -DblHuge
               ELSE 86400 * days.hd + days.fr
    IN  from_seconds_since_j2000(sec, bld)

\* Time::from_utc_calendar
from_utc_calendar(utc, bld) ==
    LET c == utc_to_jd(utc, bld)
        r == from_julian_date(c.jd, bld)
    IN  IF c.kind # "jd"
        THEN [kind |-> c.kind, ns |-> 0, ub |-> c.ub, conv |-> c]
        ELSE [kind |-> r.kind, ns |-> r.ns, ub |-> c.ub, conv |-> c]

----------------------------------------------------------------------------
(* Vec3 *)

Vec3(x, y, z) == [x |-> x, y |-> y, z |-> z]

\* Vec3::operator+
VecAdd(u, v) == Vec3(u.x + v.x, u.y + v.y, u.z + v.z)

\* Vec3::operator-
VecSub(u, v) == Vec3(u.x - v.x, u.y - v.y, u.z - v.z)

\* Vec3::norm_squared
VecNormSquared(u) == u.x * u.x + u.y * u.y + u.z * u.z

\* Vec3::dot
VecDot(u, v) == u.x * v.x + u.y * v.y + u.z * v.z

\* cross product with the middle component's operands exchanged
VecCross_left_handed_y(u, v) ==
    Vec3(u.y * v.z - u.z * v.y, u.x * v.z - u.z * v.x, u.x * v.y - u.y * v.x)

\* Vec3::cross
VecCross(u, v) ==
    Vec3(u.y * v.z - u.z * v.y, u.z * v.x - u.x * v.z, u.x * v.y - u.y * v.x)

NoVec == [op |-> "none", vec |-> Vec3(0, 0, 0), num |-> 0]

----------------------------------------------------------------------------
(* Inputs *)

\* seconds arguments, in halves: every value up to a little past the range
\* of Time
MaxSeconds == (Pow2(NsBits) \div NsPerSec) + 4
SecondsInputs == (-MaxSeconds)..MaxSeconds

YearInputs ==
    {INT_MIN, INT_MIN + 1, -101, -100, -1, 0, 1999, 2000, 2020,
     INT_MAX - 4716, INT_MAX - 4715, INT_MAX}
MonthInputs == {0, 1, 2, 3, 12, 13}
DayInputs == {0, 1, 31, 32}
HourInputs == {-1, 11, 12, 24}
MinuteInputs == {-1, 0, 59, 60}
SecondInputs == {-1, 0, 1, 2 * (Pow2(NsBits - 1) \div NsPerSec), 119, 120}

Calendars ==
    [year : YearInputs, month : MonthInputs, day : DayInputs,
     hour : HourInputs, minute : MinuteInputs, second : SecondInputs]

EpochCalendar ==
    [year |-> 2000, month |-> 1, day |-> 1, hour |-> 12, minute |-> 0, second |-> 0]

VecComp == (-VecMax)..VecMax
Vectors == [x : VecComp, y : VecComp, z : VecComp]
FixtureA == Vec3(1, 2, 3)
FixtureB == Vec3(4, 5, 6)

----------------------------------------------------------------------------
(* Time: construction, arithmetic, comparison *)

TimeIdle ==
    /\ cal = EpochCalendar /\ conv = NoConv
    /\ va = Vec3(0, 0, 0) /\ vb = Vec3(0, 0, 0) /\ vres = NoVec

Init ==
    /\ build \in Builds
    /\ a \in Int64
    /\ t = from_ns_since_j2000(a)
    /\ b = 0 /\ arg = 0 /\ dur = NoDur /\ cmp = NoCmp
    /\ pc = "init" /\ outcome = "Time" /\ ub = FALSE
    /\ TimeIdle

\* Time::from_seconds_since_j2000(s)
FromSeconds ==
    /\ pc = "init"
    /\ \E s \in SecondsInputs :
         LET r == from_seconds_since_j2000(s, build)
         IN  /\ arg' = s
             /\ t' = IF r.kind = "Time" THEN r.ns ELSE t
             /\ outcome' = r.kind
             /\ ub' = r.ub
    /\ pc' = "from_seconds"
    /\ UNCHANGED <<build, a, b, dur, cmp, cal, conv, va, vb, vres>>

\* a + Duration::from_seconds(d)
PlusDuration ==
    /\ pc = "init"
    /\ \E d \in SecondsInputs :
         LET r == TimePlusDuration(a, Duration_from_seconds(d), build)
         IN  /\ arg' = d
             /\ t' = IF r.kind = "Time" THEN r.ns ELSE t
             /\ outcome' = r.kind
             /\ ub' = r.ub
    /\ pc' = "plus"
    /\ UNCHANGED <<build, a, b, dur, cmp, cal, conv, va, vb, vres>>

\* a - Duration::from_seconds(d)
MinusDuration ==
    /\ pc = "init"
    /\ \E d \in SecondsInputs :
         LET r == TimeMinusDuration(a, Duration_from_seconds(d), build)
         IN  /\ arg' = d
             /\ t' = IF r.kind = "Time" THEN r.ns ELSE t
             /\ outcome' = r.kind
             /\ ub' = r.ub
    /\ pc' = "minus"
    /\ UNCHANGED <<build, a, b, dur, cmp, cal, conv, va, vb, vres>>

\* (a - d) + d: the Duration just subtracted is added back
PlusBack ==
    /\ pc = "minus" /\ outcome = "Time"
    /\ LET r == TimePlusDuration(t, Duration_from_seconds(arg), build)
       IN  /\ t' = IF r.kind = "Time" THEN r.ns ELSE t
           /\ outcome' = r.kind
           /\ ub' = (ub \/ r.ub)
    /\ pc' = "minus_plus"
    /\ UNCHANGED <<build, a, b, arg, dur, cmp, cal, conv, va, vb, vres>>

\* a - y for a second Time y
SubtractTime ==
    /\ pc = "init"
    /\ \E y \in Int64 :
         LET r == TimeMinusTime(a, from_ns_since_j2000(y), build)
         IN  /\ b' = y
             /\ dur' = [nsdiff |-> r.nsdiff, num |-> r.num, den |-> r.den]
             /\ outcome' = r.kind
             /\ ub' = r.ub
    /\ pc' = "diff"
    /\ UNCHANGED <<build, a, arg, t, cmp, cal, conv, va, vb, vres>>

\* the six comparison operators on a and a second Time y
CompareTimes ==
    /\ pc = "init"
    /\ \E y \in Int64 :
         /\ b' = y
         /\ cmp' = Compare(a, from_ns_since_j2000(y))
    /\ pc' = "compare"
    /\ outcome' = "Bool"
    /\ UNCHANGED <<build, a, arg, t, dur, ub, cal, conv, va, vb, vres>>

Next ==
    \/ FromSeconds
    \/ PlusDuration
    \/ MinusDuration
    \/ PlusBack
    \/ SubtractTime
    \/ CompareTimes

Spec == Init /\ [][Next]_vars

----------------------------------------------------------------------------
(* Calendar construction *)

InitCal ==
    /\ build \in Builds
    /\ cal \in Calendars \cup {EpochCalendar}
    /\ conv = NoConv
    /\ a = 0 /\ t = 0 /\ b = 0 /\ arg = 0 /\ dur = NoDur /\ cmp = NoCmp
    /\ pc = "init" /\ outcome = "none" /\ ub = FALSE
    /\ va = Vec3(0, 0, 0) /\ vb = Vec3(0, 0, 0) /\ vres = NoVec

\* Time::from_utc_calendar(cal)
FromUtcCalendar ==
    /\ pc = "init"
    /\ LET r == from_utc_calendar(cal, build)
       IN  /\ conv' = r.conv
           /\ t' = IF r.kind = "Time" THEN r.ns ELSE t
           /\ outcome' = r.kind
           /\ ub' = r.ub
    /\ pc' = "from_utc_calendar"
    /\ UNCHANGED <<build, a, b, arg, dur, cmp, cal, va, vb, vres>>

NextCal == FromUtcCalendar

SpecCal == InitCal /\ [][NextCal]_vars

----------------------------------------------------------------------------
(* Vec3 operations *)

InitVec ==
    /\ build = [trapv |-> FALSE, sat |-> FALSE]
    /\ \E p \in (Vectors \X Vectors) \cup {<<FixtureA, FixtureB>>} :
         va = p[1] /\ vb = p[2]
    /\ vres = NoVec
    /\ cal = EpochCalendar /\ conv = NoConv
    /\ a = 0 /\ t = 0 /\ b = 0 /\ arg = 0 /\ dur = NoDur /\ cmp = NoCmp
    /\ pc = "init" /\ outcome = "none" /\ ub = FALSE

Add ==
    /\ pc = "init"
    /\ vres' = [op |-> "add", vec |-> VecAdd(va, vb), num |-> 0]
    /\ pc' = "vec"
    /\ UNCHANGED <<build, a, b, arg, t, dur, cmp, outcome, ub, cal, conv, va, vb>>

Dot ==
    /\ pc = "init"
    /\ vres' = [op |-> "dot", vec |-> Vec3(0, 0, 0), num |-> VecDot(va, vb)]
    /\ pc' = "vec"
    /\ UNCHANGED <<build, a, b, arg, t, dur, cmp, outcome, ub, cal, conv, va, vb>>

Cross ==
    /\ pc = "init"
    /\ vres' = [op |-> "cross", vec |-> VecCross(va, vb), num |-> 0]
    /\ pc' = "vec"
    /\ UNCHANGED <<build, a, b, arg, t, dur, cmp, outcome, ub, cal, conv, va, vb>>

NextVec ==
    \/ Add
    \/ Dot
    \/ Cross

SpecVec == InitVec /\ [][NextVec]_vars

----------------------------------------------------------------------------
(* Properties of Time *)

\* the nanosecond value of a seconds argument (halves of a second): the
\* double product seconds * NsPerSec, rounded to the nearest integer
RoundedNs(seconds) == llround(FlRound(seconds * NsPerSec, DblBits))

\* C1: from_seconds_since_j2000(s) raises Overflow whenever the rounded
\* nanosecond value of s lies outside the signed 64-bit range, and otherwise
\* returns the Time holding exactly that rounded value.
C1_FromSecondsOverflowPolicy ==
    pc = "from_seconds" =>
        IF RoundedNs(arg) \notin Int64
        THEN outcome = "Overflow"
        ELSE outcome = "Time" /\ t = RoundedNs(arg)

\* C2: a + d and a - d raise Overflow whenever the exact sum (difference) of
\* nanoseconds(a) and the rounded delta of d lies outside the signed 64-bit
\* range, and otherwise return the Time holding exactly that value; never a
\* wrapped count.  Stated for the deltas that are themselves representable.
C2_ArithmeticOverflowPolicy ==
    (pc \in {"plus", "minus"} /\ RoundedNs(arg) \in Int64) =>
        LET exact == IF pc = "plus" THEN a + RoundedNs(arg) ELSE a - RoundedNs(arg)
        IN  IF exact \notin Int64
            THEN outcome = "Overflow"
            ELSE outcome = "Time" /\ t = exact /\ ~ub

\* C6: when neither a - d nor (a - d) + d overflows, (a - d) + d is a
\* exactly.
C6_MinusPlusRoundTrip ==
    (pc = "minus_plus" /\ outcome = "Time" /\ ~ub) => t = a

\* C6 witness: a half-way delta is subtracted from a nonzero Time and added
\* back without overflow.
C6_Witness ==
    /\ pc = "minus_plus" /\ outcome = "Time" /\ ~ub
    /\ a = 5 /\ arg = 1 /\ t = 5

\* C7: a - b is computed from the exact integer difference of the two
\* nanosecond counts, and that subtraction never wraps or leaves the signed
\* 64-bit range.
C7_ExactIntegerDifference ==
    pc = "diff" => (outcome = "Duration" /\ ~ub /\ dur.nsdiff = a - b)

\* C8: exactly one of a < b, a == b, a > b holds, and the six comparison
\* operators agree with comparing the nanosecond counts directly and with
\* each other.
C8_TotalOrder ==
    pc = "compare" =>
        /\ Cardinality({r \in {"lt", "eq", "gt"} : cmp[r]}) = 1
        /\ cmp.eq = (a = b)
        /\ cmp.lt = (a < b)
        /\ cmp.gt = (b < a)
        /\ cmp.ne = (a # b)
        /\ cmp.le = (a <= b)
        /\ cmp.ge = (a >= b)
        /\ cmp.ne = ~cmp.eq
        /\ cmp.le = (cmp.lt \/ cmp.eq)
        /\ cmp.ge = ~cmp.lt

\* C8 witness: the two ends of the range, of opposite sign, are compared.
C8_Witness ==
    /\ pc = "compare"
    /\ a = INT64_MIN /\ b = INT64_MAX
    /\ cmp.lt /\ cmp.le /\ cmp.ne /\ ~cmp.eq /\ ~cmp.gt /\ ~cmp.ge

----------------------------------------------------------------------------
(* Properties of the calendar conversion *)

\* the calendar fields are in the domains the validation names
CalendarValid(c) ==
    /\ c.month \in 1..12
    /\ c.day \in 1..31
    /\ c.hour \in 0..23
    /\ c.minute \in 0..59
    /\ 0 <= c.second /\ c.second < 120

C4_EpochFixture ==
    (pc = "from_utc_calendar" /\ cal = EpochCalendar) =>
        /\ conv.kind = "jd"
        /\ conv.Y = 1999 /\ conv.M = 13 /\ conv.A = 19 /\ conv.B = -13
        /\ conv.jd = [hd |-> 4903090, fr |-> 0]
        /\ outcome = "Time" /\ t = 0 /\ ~ub

\* C4 witness: the epoch calendar has been converted.
C4_Witness ==
    /\ pc = "from_utc_calendar" /\ cal = EpochCalendar
    /\ outcome = "Time" /\ t = 0

\* C5: for every valid calendar and every year, the A and B of utc_to_jd
\* are the floor quotients A = floor(year / 100), B = 2 - A + floor(A / 4)
\* of the month-adjusted year.
C5_FloorQuotients ==
    (pc = "from_utc_calendar" /\ conv.kind = "jd" /\ ~ub) =>
        /\ conv.A = conv.Y \div 100
        /\ conv.B = 2 - conv.A + (conv.A \div 4)

\* C10: for every valid calendar and every year of the int range, no
\* integer step of utc_to_jd leaves the int range, and from_utc_calendar
\* ends in a Time or in Overflow.
C10_IntegerStepsInRange ==
    (pc = "from_utc_calendar" /\ CalendarValid(cal)) =>
        /\ ~ub
        /\ outcome \in {"Time", "Overflow"}

----------------------------------------------------------------------------
(* Properties of Vec3 *)

VecResultsCorrect ==
    /\ vres.op = "add" =>
         vres.vec = [x |-> va.x + vb.x, y |-> va.y + vb.y, z |-> va.z + vb.z]
    /\ vres.op = "dot" =>
         vres.num = va.x * vb.x + va.y * vb.y + va.z * vb.z
    /\ vres.op = "cross" =>
         /\ vres.vec.x = va.y * vb.z - va.z * vb.y
         /\ vres.vec.y = va.z * vb.x - va.x * vb.z
         /\ vres.vec.z = va.x * vb.y - va.y * vb.x
    /\ (va = [x |-> 1, y |-> 2, z |-> 3] /\ vb = [x |-> 4, y |-> 5, z |-> 6]) =>
         /\ vres.op = "add" => vres.vec = [x |-> 5, y |-> 7, z |-> 9]
         /\ vres.op = "dot" => vres.num = 32
         /\ vres.op = "cross" => vres.vec = [x |-> -3, y |-> 6, z |-> -3]

\* C9: a + b is the component-wise sum, dot(a, b) the sum of the pairwise
\* products and cross(a, b) the right-handed product, with a and b left
\* unchanged; for a = (1,2,3), b = (4,5,6): (5,7,9), 32 and (-3,6,-3).
C9_Vec3Operations ==
    /\ []VecResultsCorrect
    /\ [][va' = va /\ vb' = vb]_vars

\* C9 witness: the cross product of the fixture vectors has been taken.
C9_Witness ==
    /\ va = [x |-> 1, y |-> 2, z |-> 3] /\ vb = [x |-> 4, y |-> 5, z |-> 6]
    /\ vres.op = "cross" /\ vres.vec = [x |-> -3, y |-> 6, z |-> -3]

====
